---- MODULE Spec2Model ----
(***************************************************************************)
(* State-machine model of src/r1cs.rs (circom-scotia): the R1CS data       *)
(* model, CircomConfig::new and the mutex-guarded witness calculator.      *)
(* Operations whose code lives outside r1cs.rs (load_r1cs, the witness     *)
(* engine's compute, circuit-instance assembly) follow spec.md.            *)
(***************************************************************************)
EXTENDS Integers, Sequences, FiniteSets, TLC

\* ------------------------------------------------------------- bounds
MaxWires == 4
NumThreads == 2

\* --------------------------------------------------------------- data
\* A path is an OsStr: a non-empty sequence of bytes. 97 and 98 are 'a' and
\* 'b'; 255 never occurs in well-formed UTF-8.
Paths == {<<97>>, <<98>>, <<255>>, <<97, 255>>}

\* Path::to_str: Some(text) exactly when the bytes are valid UTF-8.
IsUtf8(p) == \A i \in 1..Len(p) : p[i] < 128
\* Mutant: a lossy conversion (as Path::to_string_lossy) that never fails.
to_str_lossy(p) == [some |-> TRUE, str |-> [i \in 1..Len(p) |-> IF p[i] < 128 THEN p[i] ELSE 63]]
to_str(p) == IF IsUtf8(p) THEN [some |-> TRUE, str |-> p] ELSE [some |-> FALSE]

Threads == 1..NumThreads

\* Constraint<F>: a triple of sparse linear combinations, each a sequence of
\* <<index, coefficient>> pairs. This one reads x1 * x2 = x0 over indices {0,1,2}.
SampleConstraint == << << <<1, 1>> >>, << <<2, 1>> >>, << <<0, 1>> >> >>

\* load_r1cs, successful: the shape it builds from a file's header. The
\* leading wire is the constant one, then the public outputs and inputs.
R1CSHeaders == [n_pub_in : {1}, n_pub_out : {0, 1}, n_wires : 3..MaxWires]
load_r1cs_shape(h) ==
    [num_pub_in |-> h.n_pub_in,
     num_pub_out |-> h.n_pub_out,
     num_inputs |-> 1 + h.n_pub_in + h.n_pub_out,
     num_aux |-> h.n_wires - (1 + h.n_pub_in + h.n_pub_out),
     num_variables |-> h.n_wires,
     constraints |-> <<SampleConstraint>>]
Shapes == {load_r1cs_shape(h) : h \in R1CSHeaders}

\* Underlying causes the external collaborators can report.
Causes == {"NotFound", "Malformed"}

\* CircomInput sets handed to the engine: one named input with one value.
CircomInput(name, value) == [name |-> name, value |-> value]
InputSets == {<<CircomInput("a", <<2>>)>>, <<CircomInput("a", <<3>>)>>}
NoInputs == <<>>

\* Outcomes of WitnessCalculator::new(path): a cause, or an engine whose
\* compiled module has n_wires wires and whose memory holds no inputs yet.
EngineOutcomes(path) ==
    {[ok |-> FALSE, cause |-> c] : c \in Causes}
    \cup {[ok |-> TRUE, engine |-> [module |-> path, n_wires |-> n, mem |-> NoInputs]]
            : n \in (MaxWires - 1)..MaxWires}
\* Outcomes of load_r1cs(path).
ShapeOutcomes ==
    {[ok |-> FALSE, cause |-> c] : c \in Causes}
    \cup {[ok |-> TRUE, r1cs |-> s] : s \in Shapes}

\* ------------------------------------------------------------ errors
FilenameError == [kind |-> "FilenameError"]
WitnessCalculatorInstantiationError(path, source) ==
    [kind |-> "WitnessCalculatorInstantiationError", path |-> path, source |-> source]
LoadR1CSError(path, source) ==
    [kind |-> "LoadR1CSError", path |-> path, source |-> source]

\* ------------------------------------------------------------- mutex
\* Mutant: a mutex created already held by a guard nobody will drop.
MutexNewHeld(data) == [data |-> data, owner |-> {0}]
\* Mutex::new(data): unlocked.
MutexNew(data) == [data |-> data, owner |-> {}]
\* Mutant: the engine shared without exclusion.
CanLockUnguarded(m) == TRUE
\* Mutex::lock returns only while no guard is alive.
CanLock(m) == m.owner = {}

\* ------------------------------------------------ witness engine
\* The engine's run over the inputs loaded in its memory: wire 0 is the
\* constant one, wire i the i-th power of the input value modulo 7.
RECURSIVE Pow(_, _)
Pow(b, e) == IF e = 0 THEN 1 ELSE (b * Pow(b, e - 1)) % 7
InputValue(inputs) == IF inputs = NoInputs THEN 0 ELSE inputs[1].value[1]
EngineWitness(engine) == [i \in 1..engine.n_wires |-> Pow(InputValue(engine.mem), i - 1)]
\* Outcomes of one run: the witness, or a failure of the engine itself.
ComputeOutcomes(engine) ==
    {[ok |-> TRUE, witness |-> EngineWitness(engine)], [ok |-> FALSE, cause |-> "Trap"]}

EngineComputeError(source) == [kind |-> "EngineComputeError", source |-> source]
WitnessLengthError(expected, actual) ==
    [kind |-> "WitnessLengthError", expected |-> expected, actual |-> actual]
\* CircomCircuit { r1cs, witness }
CircomCircuit(r1cs, witness) == [kind |-> "Instance", r1cs |-> r1cs, witness |-> witness]
NoWitness == [some |-> FALSE]
SomeWitness(w) == [some |-> TRUE, val |-> w]

\* Mutant: the length check made against the number of declared inputs.
LengthOkInputs(r1cs, w) == Len(w) >= r1cs.num_inputs
\* The witness binds to the shape when it assigns every variable.
LengthOk(r1cs, w) == Len(w) = r1cs.num_variables

\* What instantiate returns once compute has returned out.
InstantiateResult(config, out) ==
    IF ~out.ok THEN EngineComputeError(out.cause)
    ELSE IF config.sanity_check /\ ~LengthOk(config.r1cs, out.witness)
    THEN WitnessLengthError(config.r1cs.num_variables, Len(out.witness))
    ELSE CircomCircuit(config.r1cs, SomeWitness(out.witness))

\* ----------------------------------------------- CircomConfig::new
\* Mutants of the assembled configuration.
MkConfigChecked(r1cs, wtns) == [r1cs |-> r1cs, wtns |-> wtns, sanity_check |-> TRUE]
MkConfigNoAux(r1cs, wtns) ==
    [r1cs |-> [r1cs EXCEPT !.num_variables = r1cs.num_inputs], wtns |-> wtns,
     sanity_check |-> FALSE]
\* Ok(Self { wtns, r1cs, sanity_check: false })
MkConfig(r1cs, wtns) == [r1cs |-> r1cs, wtns |-> wtns, sanity_check |-> FALSE]

\* Mutants: the error annotated with the other argument's path.
WtnsErrorPathSwapped(path_wtns_string, path_r1cs_string) == path_r1cs_string
WtnsErrorPath(path_wtns_string, path_r1cs_string) == path_wtns_string
R1csErrorPathSwapped(path_wtns_string, path_r1cs_string) == path_wtns_string
R1csErrorPath(path_wtns_string, path_r1cs_string) == path_r1cs_string

WtnsCall(wtns, eo) == [fn |-> "WitnessCalculator::new", arg |-> wtns, out |-> eo]
R1csCall(r1cs, so) == [fn |-> "load_r1cs", arg |-> r1cs, out |-> so]

\* Mutant: the shape path is converted only right before load_r1cs.
CircomConfigNewLateCheck(wtns, r1cs, eo, so) ==
    LET path_wtns_string == to_str(wtns)
        path_r1cs_string == to_str(r1cs)
    IN  IF ~path_wtns_string.some
        THEN [ret |-> FilenameError, site |-> "wtns.to_str", calls |-> <<>>, live |-> 0]
        ELSE IF ~eo.ok
        THEN [ret |-> WitnessCalculatorInstantiationError(path_wtns_string.str, eo.cause),
              site |-> "WitnessCalculator::new", calls |-> <<WtnsCall(wtns, eo)>>, live |-> 0]
        ELSE IF ~path_r1cs_string.some
        THEN [ret |-> FilenameError, site |-> "r1cs.to_str",
              calls |-> <<WtnsCall(wtns, eo)>>, live |-> 0]
        ELSE IF ~so.ok
        THEN [ret |-> LoadR1CSError(path_r1cs_string.str, so.cause), site |-> "load_r1cs",
              calls |-> <<WtnsCall(wtns, eo), R1csCall(r1cs, so)>>, live |-> 0]
        ELSE [ret |-> [kind |-> "Ok", config |-> MkConfig(so.r1cs, MutexNew(eo.engine))],
              site |-> "Ok",
              calls |-> <<WtnsCall(wtns, eo), R1csCall(r1cs, so)>>, live |-> 1]

\* CircomConfig::new(wtns, r1cs), with eo and so the outcomes the two
\* external calls have if they are made. Yields the returned value, the
\* place it was returned from, the external calls made in order, and the
\* number of engine handles alive once new has returned.
CircomConfigNew(wtns, r1cs, eo, so) ==
    LET path_wtns_string == to_str(wtns)
        path_r1cs_string == to_str(r1cs)
    IN  IF ~path_wtns_string.some
        THEN [ret |-> FilenameError, site |-> "wtns.to_str", calls |-> <<>>, live |-> 0]
        ELSE IF ~path_r1cs_string.some
        THEN [ret |-> FilenameError, site |-> "r1cs.to_str", calls |-> <<>>, live |-> 0]
        ELSE IF ~eo.ok
        THEN [ret |-> WitnessCalculatorInstantiationError(
                          WtnsErrorPath(path_wtns_string.str, path_r1cs_string.str), eo.cause),
              site |-> "WitnessCalculator::new", calls |-> <<WtnsCall(wtns, eo)>>, live |-> 0]
        ELSE IF ~so.ok
        THEN [ret |-> LoadR1CSError(
                          R1csErrorPath(path_wtns_string.str, path_r1cs_string.str), so.cause),
              site |-> "load_r1cs",
              calls |-> <<WtnsCall(wtns, eo), R1csCall(r1cs, so)>>, live |-> 0]
        ELSE [ret |-> [kind |-> "Ok", config |-> MkConfig(so.r1cs, MutexNew(eo.engine))],
              site |-> "Ok",
              calls |-> <<WtnsCall(wtns, eo), R1csCall(r1cs, so)>>, live |-> 1]

\* ------------------------------------------------------------- state
VARIABLES
    args,     \* arguments of the latest CircomConfig::new call
    ret,      \* the value that call returned
    site,     \* where in new it returned from
    calls,    \* the external calls that call made, in order, with outcomes
    engines,  \* number of WitnessCalculator handles alive
    cfg,      \* the configuration the caller holds, if any
    pc,       \* per thread: position in an instantiate call
    input,    \* per thread: the inputs of its call
    result    \* per thread: what its call returned

vars == <<args, ret, site, calls, engines, cfg, pc, input, result>>

NoConfig == [present |-> FALSE]
NoResult == [kind |-> "None"]

Init ==
    /\ args = [kind |-> "None"]
    /\ ret = [kind |-> "None"]
    /\ site = "None"
    /\ calls = <<>>
    /\ engines = 0
    /\ cfg = NoConfig
    /\ pc = [t \in Threads |-> "idle"]
    /\ input = [t \in Threads |-> NoInputs]
    /\ result = [t \in Threads |-> NoResult]

AllIdle == \A t \in Threads : pc[t] = "idle"

\* The caller runs CircomConfig::new and keeps the configuration if one is
\* returned.
New(wtns, r1cs, eo, so) ==
    /\ LET r == CircomConfigNew(wtns, r1cs, eo, so)
       IN  /\ args' = [kind |-> "Call", wtns |-> wtns, r1cs |-> r1cs]
           /\ ret' = r.ret
           /\ site' = r.site
           /\ calls' = r.calls
           /\ engines' = r.live
           /\ cfg' = IF r.ret.kind = "Ok"
                     THEN [present |-> TRUE, r1cs |-> r.ret.config.r1cs,
                           wtns |-> r.ret.config.wtns,
                           sanity_check |-> r.ret.config.sanity_check]
                     ELSE NoConfig
    /\ UNCHANGED <<pc, input, result>>

\* The owner flips the public sanity_check flag (needs exclusive access).
SetSanityCheck(b) ==
    /\ cfg.present
    /\ AllIdle
    /\ cfg.sanity_check # b
    /\ cfg' = [cfg EXCEPT !.sanity_check = b]
    /\ UNCHANGED <<args, ret, site, calls, engines, pc, input, result>>

\* The owner drops the configuration, and the engine with it.
Drop ==
    /\ cfg.present
    /\ AllIdle
    /\ cfg' = NoConfig
    /\ engines' = 0
    /\ UNCHANGED <<args, ret, site, calls, pc, input, result>>

\* instantiate(config, none): a shape-only instance, no engine call.
InstantiateShapeOnly(t) ==
    /\ cfg.present
    /\ pc[t] = "idle"
    /\ pc' = [pc EXCEPT ![t] = "done"]
    /\ result' = [result EXCEPT ![t] = CircomCircuit(cfg.r1cs, NoWitness)]
    /\ UNCHANGED <<args, ret, site, calls, engines, cfg, input>>

\* instantiate(config, inputs): the thread reaches compute and asks for the
\* engine.
InstantiateCall(t, inputs) ==
    /\ cfg.present
    /\ pc[t] = "idle"
    /\ pc' = [pc EXCEPT ![t] = "waiting"]
    /\ input' = [input EXCEPT ![t] = inputs]
    /\ UNCHANGED <<args, ret, site, calls, engines, cfg, result>>

\* compute: the lock on the engine is granted.
Acquire(t) ==
    /\ pc[t] = "waiting"
    /\ CanLock(cfg.wtns)
    /\ cfg' = [cfg EXCEPT !.wtns.owner = {t}]
    /\ pc' = [pc EXCEPT ![t] = "loading"]
    /\ UNCHANGED <<args, ret, site, calls, engines, input, result>>

\* compute: the inputs are written into the engine's memory.
LoadInputs(t) ==
    /\ pc[t] = "loading"
    /\ cfg' = [cfg EXCEPT !.wtns.data.mem = input[t]]
    /\ pc' = [pc EXCEPT ![t] = "running"]
    /\ UNCHANGED <<args, ret, site, calls, engines, input, result>>

\* compute: the engine runs on what its memory holds, the lock is
\* released, and instantiate checks the outcome and returns.
Finish(t) ==
    /\ pc[t] = "running"
    /\ cfg' = [cfg EXCEPT !.wtns.owner = {}]
    /\ \E out \in ComputeOutcomes(cfg.wtns.data) :
         result' = [result EXCEPT ![t] = InstantiateResult(cfg, out)]
    /\ pc' = [pc EXCEPT ![t] = "done"]
    /\ UNCHANGED <<args, ret, site, calls, engines, input>>

\* The caller consumes the result.
Return(t) ==
    /\ pc[t] = "done"
    /\ pc' = [pc EXCEPT ![t] = "idle"]
    /\ input' = [input EXCEPT ![t] = NoInputs]
    /\ result' = [result EXCEPT ![t] = NoResult]
    /\ UNCHANGED <<args, ret, site, calls, engines, cfg>>

\* One configuration is built and held at a time.
NewCall ==
    /\ ~cfg.present
    /\ \E wtns \in Paths, r1cs \in Paths :
         \E eo \in EngineOutcomes(wtns), so \in ShapeOutcomes : New(wtns, r1cs, eo, so)

Next ==
    \/ NewCall
    \/ \E b \in BOOLEAN : SetSanityCheck(b)
    \/ Drop
    \/ \E t \in Threads : InstantiateShapeOnly(t)
    \/ \E t \in Threads : \E inputs \in InputSets : InstantiateCall(t, inputs)
    \/ \E t \in Threads : Acquire(t)
    \/ \E t \in Threads : LoadInputs(t)
    \/ \E t \in Threads : Finish(t)
    \/ \E t \in Threads : Return(t)

Spec == Init /\ [][Next]_vars

\* ------------------------------------------- shared-configuration runs
\* A configuration just returned by CircomConfig::new and shared by the
\* threads for the rest of the run.
InitShared ==
    \E eo \in EngineOutcomes(<<97>>), so \in ShapeOutcomes :
        LET r == CircomConfigNew(<<97>>, <<98>>, eo, so)
        IN  /\ r.ret.kind = "Ok"
            /\ args = [kind |-> "Call", wtns |-> <<97>>, r1cs |-> <<98>>]
            /\ ret = r.ret
            /\ site = r.site
            /\ calls = r.calls
            /\ engines = r.live
            /\ cfg = [present |-> TRUE, r1cs |-> r.ret.config.r1cs,
                      wtns |-> r.ret.config.wtns,
                      sanity_check |-> r.ret.config.sanity_check]
            /\ pc = [t \in Threads |-> "idle"]
            /\ input = [t \in Threads |-> NoInputs]
            /\ result = [t \in Threads |-> NoResult]

NextShared ==
    \/ \E b \in BOOLEAN : SetSanityCheck(b)
    \/ \E t \in Threads : InstantiateShapeOnly(t)
    \/ \E t \in Threads : \E inputs \in InputSets : InstantiateCall(t, inputs)
    \/ \E t \in Threads : Acquire(t)
    \/ \E t \in Threads : LoadInputs(t)
    \/ \E t \in Threads : Finish(t)
    \/ \E t \in Threads : Return(t)

\* The scheduler lets a thread that can step do so, and a thread asking for
\* the lock is granted it if it is free again and again.
Fairness ==
    \A t \in Threads :
        /\ SF_vars(Acquire(t))
        /\ WF_vars(LoadInputs(t))
        /\ WF_vars(Finish(t))
FairSpec == InitShared /\ [][NextShared]_vars /\ Fairness

\* ------------------------------------------------------------ claims
Called == args.kind = "Call"
EngineBuilt == Len(calls) >= 1 /\ calls[1].fn = "WitnessCalculator::new" /\ calls[1].out.ok
EngineFailed == Len(calls) >= 1 /\ calls[1].fn = "WitnessCalculator::new" /\ ~calls[1].out.ok
ShapeLoaded == Len(calls) >= 2 /\ calls[2].fn = "load_r1cs" /\ calls[2].out.ok
ShapeFailed == Len(calls) >= 2 /\ calls[2].fn = "load_r1cs" /\ ~calls[2].out.ok
LoadAttempted == \E i \in 1..Len(calls) : calls[i].fn = "load_r1cs"
InEngine(t) == pc[t] \in {"loading", "running"}

\* C1: when both paths are text and building the engine from the engine
\* path fails, new returns the engine-instantiation error carrying exactly
\* the engine path's text and the builder's cause, and load_r1cs is not
\* called.
C1_EngineFailure ==
    (Called /\ EngineFailed) =>
        /\ IsUtf8(args.wtns) /\ IsUtf8(args.r1cs)
        /\ calls[1].arg = args.wtns
        /\ ret = WitnessCalculatorInstantiationError(args.wtns, calls[1].out.cause)
        /\ ~LoadAttempted
        /\ ~cfg.present
C1_Witness ==
    /\ Called /\ EngineFailed
    /\ args.wtns # args.r1cs
    /\ ret.kind = "WitnessCalculatorInstantiationError"

\* C2: when the engine was built and load_r1cs fails, new returns the
\* shape-load error carrying exactly the shape path's text and the
\* parser's cause; no configuration is returned and no engine handle
\* stays alive.
C2_ShapeFailure ==
    (Called /\ EngineBuilt /\ ShapeFailed) =>
        /\ calls[2].arg = args.r1cs
        /\ ret = LoadR1CSError(args.r1cs, calls[2].out.cause)
        /\ ~cfg.present
        /\ engines = 0
C2_Witness ==
    /\ Called /\ EngineBuilt /\ ShapeFailed
    /\ args.wtns # args.r1cs
    /\ ret.kind = "LoadR1CSError"

\* C3 as stated: the filename error tells which argument was invalid, so
\* a failure at the engine-path check and one at the shape-path check
\* return different errors.
C3_ErrorNamesArgument ==
    [][(site = "wtns.to_str" /\ site' = "r1cs.to_str") => ret' # ret]_vars
\* C3 as amended: a path that is not text makes new return the filename
\* error, and that error is the one bare FilenameError value whichever
\* argument was invalid: it carries no path and no argument name.
C3_FilenameError ==
    Called =>
        /\ (~IsUtf8(args.wtns) \/ ~IsUtf8(args.r1cs)) <=> (site \in {"wtns.to_str", "r1cs.to_str"})
        /\ (site \in {"wtns.to_str", "r1cs.to_str"}) <=> (ret.kind = "FilenameError")
        /\ (ret.kind = "FilenameError") => (DOMAIN ret = {"kind"})
C3_Witness ==
    /\ Called
    /\ IsUtf8(args.wtns) /\ ~IsUtf8(args.r1cs)
    /\ ret = FilenameError

\* C4: new returns a configuration exactly when both paths are text, the
\* engine build succeeds and the shape load succeeds; the configuration
\* holds the shape load_r1cs returned, the engine built from the engine
\* path, and sanity_check = false.
C4_OkIff ==
    Called =>
        /\ (ret.kind = "Ok") <=>
              (IsUtf8(args.wtns) /\ IsUtf8(args.r1cs) /\ EngineBuilt /\ ShapeLoaded)
        /\ (ret.kind = "Ok") =>
              /\ calls[1].arg = args.wtns
              /\ calls[2].arg = args.r1cs
              /\ ret.config.r1cs = calls[2].out.r1cs
              /\ ret.config.wtns.data = calls[1].out.engine
              /\ ret.config.wtns.data.module = args.wtns
              /\ ret.config.sanity_check = FALSE
C4_Witness ==
    /\ Called
    /\ ret.kind = "Ok"
    /\ args.wtns # args.r1cs
    /\ cfg.present /\ cfg.r1cs = calls[2].out.r1cs

\* C5: at every instant at most one thread is using the engine, and a
\* thread uses it only while it holds the configuration's mutex.
C5_MutualExclusion ==
    /\ Cardinality({t \in Threads : InEngine(t)}) <= 1
    /\ \A t \in Threads : InEngine(t) => (cfg.present /\ cfg.wtns.owner = {t})
C5_Witness ==
    \E t, u \in Threads : pc[t] = "running" /\ pc[u] = "waiting"

\* C6: every witness a call returns is the one the engine produces for
\* that call's own inputs, whatever the interleaving.
C6_OwnInputs ==
    \A t \in Threads :
        (pc[t] = "done" /\ input[t] # NoInputs) =>
            LET own == EngineWitness([cfg.wtns.data EXCEPT !.mem = input[t]])
            IN  /\ (result[t].kind = "Instance") =>
                      (result[t].witness.some /\ result[t].witness.val = own)
                /\ (result[t].kind = "WitnessLengthError") => (result[t].actual = Len(own))
C6_Witness ==
    \E t, u \in Threads :
        /\ pc[t] = "done" /\ pc[u] = "done"
        /\ result[t].kind = "Instance" /\ result[u].kind = "Instance"
        /\ input[t] # NoInputs /\ input[u] # NoInputs /\ input[t] # input[u]
        /\ result[t].witness.val # result[u].witness.val

C8_WitnessLength ==
    \A t \in Threads :
        (pc[t] = "done" /\ input[t] # NoInputs /\ result[t].kind # "EngineComputeError") =>
            LET n == cfg.r1cs.num_variables
                produced == cfg.wtns.data.n_wires
            IN  IF cfg.sanity_check
                THEN /\ (result[t].kind = "Instance") =>
                           (result[t].witness.some /\ Len(result[t].witness.val) = n)
                     /\ (produced # n) => (result[t] = WitnessLengthError(n, produced))
                ELSE /\ result[t].kind = "Instance"
                     /\ Len(result[t].witness.val) = produced
C8_Witness ==
    \E t \in Threads :
        /\ pc[t] = "done" /\ cfg.sanity_check
        /\ result[t].kind = "WitnessLengthError"
        /\ result[t].expected # result[t].actual

C10_ChecksFirst ==
    (Called /\ (~IsUtf8(args.wtns) \/ ~IsUtf8(args.r1cs))) =>
        /\ ret = FilenameError
        /\ calls = <<>>
        /\ engines = 0
        /\ ~cfg.present
        /\ site = IF ~IsUtf8(args.wtns) THEN "wtns.to_str" ELSE "r1cs.to_str"
C10_Witness ==
    /\ Called
    /\ ~IsUtf8(args.wtns) /\ ~IsUtf8(args.r1cs)
    /\ site = "wtns.to_str" /\ calls = <<>>
====
